---------------------------- MODULE Spec2Model ----------------------------
(***************************************************************************)
(* Model of the temperature dashboard component App (src/Semusi/src/       *)
(* App.jsx): its three pieces of React state, the alert effect, the        *)
(* render, and the analysis functions calculateAmbientTemp,                *)
(* calculateStats and getTrend.                                            *)
(*                                                                         *)
(* Numbers.  A reading is an integer count of 1/Scale degrees, so that     *)
(* readings finer than one decimal digit exist (Scale = 4: quarter         *)
(* degrees, which are exact as binary doubles).  x.toFixed(1) yields the   *)
(* decimal string of x rounded to one decimal; it is modelled by the       *)
(* integer count of tenths that the string denotes ("23.0" is 230).        *)
(* The `time` label of a sample is read only by the chart's X axis and is  *)
(* left out of the sample records.                                         *)
(***************************************************************************)
EXTENDS Integers, Sequences, FiniteSets, TLC

VARIABLES
    temperatureData,  \* useState: the series, a sequence of samples
    timeRange,        \* useState: "24h" or "7d"
    alerts,           \* useState: the stored alert list
    effectPending,    \* the alert effect is scheduled (its dependency changed)
    view,             \* what the last render committed to the screen
    ret               \* the last direct call of an analysis function

vars == <<temperatureData, timeRange, alerts, effectPending, view, ret>>

----------------------------------------------------------------------------
(* Bounds of the model *)

Scale == 4       \* units per degree Celsius
MaxLen == 3      \* longest generated series
MaxClock == 2    \* largest clock value Date.now() returns

(* Program constants *)

BatteryThreshold == 30
DifferentialThreshold == 10
AmbientLocalWeight == 2
AmbientDivisor == 3

BatteryMessage == "Battery temperature exceeding normal range"
DifferentialMessage == "Large temperature differential detected"

Keys == {"localTemp", "batteryTemp"}

Deg(d) == d * Scale

Sample(l, b) == [localTemp |-> l, batteryTemp |-> b]

(* The series the component is constructed with. *)
InitialData ==
    << Sample(Deg(22), Deg(25)), Sample(Deg(21), Deg(24)),
       Sample(Deg(20), Deg(23)), Sample(Deg(23), Deg(28)),
       Sample(Deg(26), Deg(32)), Sample(Deg(28), Deg(35)),
       Sample(Deg(25), Deg(30)), Sample(Deg(23), Deg(27)) >>

----------------------------------------------------------------------------
(* JavaScript values and primitives *)

NaN == "NaN"
PosInfinity == "Infinity"
NegInfinity == "-Infinity"

Return(v) == [tag |-> "return", value |-> v]
Throw(e) == [tag |-> "throw", error |-> e]

Abs(x) == IF x < 0 THEN -x ELSE x

(* The integer nearest to a / b (b > 0), a tie going away from zero. *)
RoundHalfAway(a, b) ==
    IF a >= 0 THEN (2 * a + b) \div (2 * b)
    ELSE -((2 * (-a) + b) \div (2 * b))

(* (num / den degrees).toFixed(1), in tenths of a degree; 0/0 is NaN. *)
ToFixed1(num, den) ==
    IF den = 0 THEN NaN ELSE RoundHalfAway(10 * num, den)

(* data[i] for a JavaScript index i: undefined outside 0 .. length-1. *)
HasIndex(data, i) == i >= 0 /\ i < Len(data)
At(data, i) == data[i + 1]

RECURSIVE SumFrom(_, _)
SumFrom(values, i) ==
    IF i > Len(values) THEN 0 ELSE values[i] + SumFrom(values, i + 1)

(* values.reduce((a, b) => a + b, 0) *)
Sum(values) == SumFrom(values, 1)

(* Math.min(...values), Math.max(...values): +-Infinity for no argument. *)
MathMin(values) ==
    IF Len(values) = 0 THEN PosInfinity
    ELSE CHOOSE m \in {values[i] : i \in 1..Len(values)} :
             \A i \in 1..Len(values) : m <= values[i]

MathMax(values) ==
    IF Len(values) = 0 THEN NegInfinity
    ELSE CHOOSE m \in {values[i] : i \in 1..Len(values)} :
             \A i \in 1..Len(values) : m >= values[i]

----------------------------------------------------------------------------
(* The analysis functions *)

(* Plausible slip: the two weights exchanged. *)
CalculateAmbientTempSwapped(localTemp, batteryTemp) ==
    ToFixed1(localTemp + batteryTemp * AmbientLocalWeight,
             AmbientDivisor * Scale)

(* ((localTemp * 2 + batteryTemp) / 3).toFixed(1) *)
CalculateAmbientTemp(localTemp, batteryTemp) ==
    ToFixed1(localTemp * AmbientLocalWeight + batteryTemp,
             AmbientDivisor * Scale)

(* data.map(item => item[key]) *)
Project(data, key) == [i \in 1..Len(data) |-> data[i][key]]

(* Plausible slip: the mean cut off after one decimal instead of rounded. *)
MeanTruncated(values) ==
    IF Len(values) = 0 THEN NaN
    ELSE (10 * Sum(values)) \div (Len(values) * Scale)

(* Plausible slip: the reduction starts one element late. *)
MeanSkipFirst(values) ==
    ToFixed1(SumFrom(values, 2), Len(values) * Scale)

(* (values.reduce((a, b) => a + b, 0) / values.length).toFixed(1) *)
Mean(values) == ToFixed1(Sum(values), Len(values) * Scale)

CalculateStats(data, key) ==
    LET values == Project(data, key)
    IN  [min |-> MathMin(values),
         max |-> MathMax(values),
         avg |-> Mean(values)]

(* Plausible slip: >= for >, so that equal values read as a rise. *)
TrendDirectionNotLess(last, prev) == IF last >= prev THEN "up" ELSE "down"

(* last > prev ? 'up' : 'down' *)
TrendDirection(last, prev) == IF last > prev THEN "up" ELSE "down"

(* Reading [key] of data[length-1] or data[length-2] when that element is
   undefined throws a TypeError. *)
GetTrend(data, key) ==
    IF ~HasIndex(data, Len(data) - 1) \/ ~HasIndex(data, Len(data) - 2)
    THEN Throw("TypeError")
    ELSE LET last == At(data, Len(data) - 1)[key]
             prev == At(data, Len(data) - 2)[key]
         IN  Return([direction |-> TrendDirection(last, prev),
                     change |-> ToFixed1(Abs(last - prev), Scale)])

----------------------------------------------------------------------------
(* The alert effect *)

(* Plausible slip: >= for >, so that exactly 30 degrees fires. *)
BatteryRuleAtThreshold(latestData) ==
    latestData.batteryTemp >= Deg(BatteryThreshold)

(* latestData.batteryTemp > 30 *)
BatteryRule(latestData) == latestData.batteryTemp > Deg(BatteryThreshold)

(* Math.abs(latestData.batteryTemp - latestData.localTemp) > 10 *)
DifferentialRule(latestData) ==
    Abs(latestData.batteryTemp - latestData.localTemp)
        > Deg(DifferentialThreshold)

(* id: Date.now() *)
BatteryAlertId(now) == now

(* Plausible slip: the + 1 left out. *)
DifferentialAlertIdNoOffset(now) == now

(* id: Date.now() + 1 *)
DifferentialAlertId(now) == now + 1

(* The body of the effect up to setAlerts: newAlerts, or the TypeError of
   reading batteryTemp of an undefined latestData.  now1 and now2 are what
   the two Date.now() calls return. *)
EvaluateAlerts(data, now1, now2) ==
    IF ~HasIndex(data, Len(data) - 1) THEN Throw("TypeError")
    ELSE LET latestData == At(data, Len(data) - 1)
             battery ==
                 IF BatteryRule(latestData)
                 THEN << [id |-> BatteryAlertId(now1),
                          message |-> BatteryMessage] >>
                 ELSE << >>
             differential ==
                 IF DifferentialRule(latestData)
                 THEN << [id |-> DifferentialAlertId(now2),
                          message |-> DifferentialMessage] >>
                 ELSE << >>
         IN  Return(battery \o differential)

(* Plausible slip: setAlerts(prev => [...prev, ...newAlerts]). *)
SetAlertsAppending(oldAlerts, newAlerts) == oldAlerts \o newAlerts

(* setAlerts(newAlerts) *)
SetAlerts(oldAlerts, newAlerts) == newAlerts

----------------------------------------------------------------------------
(* The render *)

(* temperatureData[length - 1].batteryTemp > 30 ? 'Warning' : 'Normal' *)
BatteryStatus(latestData) ==
    IF latestData.batteryTemp > Deg(BatteryThreshold)
    THEN "Warning" ELSE "Normal"

(* Math.abs(batteryTemp - localTemp) > 10: the yellow badge *)
DifferentialHighlighted(latestData) ==
    Abs(latestData.batteryTemp - latestData.localTemp)
        > Deg(DifferentialThreshold)

Crashed == [crashed |-> TRUE, error |-> "TypeError"]

(* What App returns for the given state.  getTrend throws for a series of
   fewer than two samples; with no error boundary React then unmounts the
   component. *)
RenderApp(data, range, alertList) ==
    IF GetTrend(data, "localTemp").tag = "throw"
       \/ GetTrend(data, "batteryTemp").tag = "throw"
    THEN Crashed
    ELSE LET latestData == At(data, Len(data) - 1)
         IN  [crashed |-> FALSE,
              activeRange |-> range,
              banner |-> alertList,
              localCard |-> [value |-> CalculateStats(data, "localTemp").avg,
                             trend |-> GetTrend(data, "localTemp").value],
              batteryCard |-> [value |-> CalculateStats(data, "batteryTemp").avg,
                               trend |-> GetTrend(data, "batteryTemp").value],
              ambientCard |-> CalculateAmbientTemp(latestData.localTemp,
                                                   latestData.batteryTemp),
              localStats |-> CalculateStats(data, "localTemp"),
              batteryStats |-> CalculateStats(data, "batteryTemp"),
              batteryStatus |-> BatteryStatus(latestData),
              differentialHighlighted |-> DifferentialHighlighted(latestData),
              differentialText |->
                  ToFixed1(Abs(latestData.batteryTemp - latestData.localTemp),
                           Scale)]

----------------------------------------------------------------------------
(* Inputs *)

Clock == 0..MaxClock

(* Readings around the two thresholds: exactly 30 degrees and a quarter
   above, a differential of exactly 10 degrees and a quarter off it, a
   battery far colder than the local sensor. *)
LocalTemps == {Deg(20), Deg(20) + 1, Deg(22)}
BatteryTemps == {Deg(-5), Deg(30), Deg(30) + 1}
Samples == {Sample(l, b) : l \in LocalTemps, b \in BatteryTemps}

RECURSIVE SeriesOfLen(_, _)
SeriesOfLen(S, n) ==
    IF n = 0 THEN {<< >>}
    ELSE {Append(d, x) : d \in SeriesOfLen(S, n - 1), x \in S}

(* The series the analysis functions are called with. *)
AllSeries == UNION {SeriesOfLen(Samples, n) : n \in 0..MaxLen} \cup {InitialData}

(* The samples series changes are made of: one firing no rule, one firing
   both, one firing the battery rule alone, one the differential alone. *)
SetterSamples ==
    {Sample(Deg(20), Deg(30)), Sample(Deg(20), Deg(30) + 1),
     Sample(Deg(20) + 1, Deg(30) + 1), Sample(Deg(22), Deg(-5))}

(* The arrays a caller hands to setTemperatureData: a fresh series of up to
   two samples, or the current one with a sample appended. *)
NewSeries(current) ==
    UNION {SeriesOfLen(SetterSamples, n) : n \in 0..2}
    \cup {Append(current, x) : x \in {y \in SetterSamples : Len(current) < MaxLen}}

NoCall == [fn |-> "none"]
NoView == [crashed |-> FALSE, mounted |-> FALSE]

----------------------------------------------------------------------------
(* The component: state after the first render, and its steps.  React
   re-renders after every state update and runs the pending effect before
   it handles the next update. *)

Init ==
    /\ temperatureData = InitialData
    /\ timeRange = "24h"
    /\ alerts = << >>
    /\ view = RenderApp(InitialData, "24h", << >>)
    /\ effectPending = TRUE
    /\ ret = NoCall

(* setTemperatureData(newData), then the re-render.  A render that throws
   unmounts the component and runs no effect. *)
SetTemperatureData ==
    /\ ~view.crashed
    /\ ~effectPending
    /\ \E newData \in NewSeries(temperatureData) :
        /\ temperatureData' = newData
        /\ view' = RenderApp(newData, timeRange, alerts)
        /\ effectPending' = ~RenderApp(newData, timeRange, alerts).crashed
    /\ UNCHANGED <<timeRange, alerts, ret>>

(* onClick of the 24h button *)
Click24h ==
    /\ ~view.crashed
    /\ ~effectPending
    /\ timeRange' = "24h"
    /\ view' = RenderApp(temperatureData, "24h", alerts)
    /\ UNCHANGED <<temperatureData, alerts, effectPending, ret>>

(* onClick of the 7d button *)
Click7d ==
    /\ ~view.crashed
    /\ ~effectPending
    /\ timeRange' = "7d"
    /\ view' = RenderApp(temperatureData, "7d", alerts)
    /\ UNCHANGED <<temperatureData, alerts, effectPending, ret>>

(* The effect of [temperatureData], then the re-render setAlerts causes.
   The second Date.now() is read no earlier than the first. *)
RunEffect ==
    /\ ~view.crashed
    /\ effectPending
    /\ \E now1 \in Clock, now2 \in Clock :
        /\ now1 <= now2
        /\ EvaluateAlerts(temperatureData, now1, now2).tag = "return"
        /\ alerts' = SetAlerts(alerts,
                               EvaluateAlerts(temperatureData, now1, now2).value)
    /\ view' = RenderApp(temperatureData, timeRange, alerts')
    /\ effectPending' = FALSE
    /\ UNCHANGED <<temperatureData, timeRange, ret>>

Next == SetTemperatureData \/ Click24h \/ Click7d \/ RunEffect

Spec == Init /\ [][Next]_vars

----------------------------------------------------------------------------
(* The analysis functions called directly, on every series of AllSeries. *)

FnInit ==
    /\ temperatureData \in AllSeries
    /\ timeRange = "24h"
    /\ alerts = << >>
    /\ view = NoView
    /\ effectPending = FALSE
    /\ ret = NoCall

(* calculateAmbientTemp on the readings of one sample of the series (the
   tooltip's hovered point, the ambient card's last point) *)
CallCalculateAmbientTemp ==
    /\ \E i \in 1..Len(temperatureData) :
        ret' = [fn |-> "calculateAmbientTemp",
                localTemp |-> temperatureData[i].localTemp,
                batteryTemp |-> temperatureData[i].batteryTemp,
                outcome |-> Return(CalculateAmbientTemp(
                                temperatureData[i].localTemp,
                                temperatureData[i].batteryTemp))]
    /\ UNCHANGED <<temperatureData, timeRange, alerts, effectPending, view>>

CallCalculateStats ==
    /\ \E key \in Keys :
        ret' = [fn |-> "calculateStats", key |-> key,
                outcome |-> Return(CalculateStats(temperatureData, key))]
    /\ UNCHANGED <<temperatureData, timeRange, alerts, effectPending, view>>

CallGetTrend ==
    /\ \E key \in Keys :
        ret' = [fn |-> "getTrend", key |-> key,
                outcome |-> GetTrend(temperatureData, key)]
    /\ UNCHANGED <<temperatureData, timeRange, alerts, effectPending, view>>

(* The effect's evaluation alone, without the component around it. *)
CallEvaluateAlerts ==
    /\ \E now1 \in Clock, now2 \in Clock :
        /\ now1 <= now2
        /\ ret' = [fn |-> "evaluateAlerts", now1 |-> now1, now2 |-> now2,
                   outcome |-> EvaluateAlerts(temperatureData, now1, now2)]
    /\ UNCHANGED <<temperatureData, timeRange, alerts, effectPending, view>>

FnNext ==
    \/ CallCalculateAmbientTemp
    \/ CallCalculateStats
    \/ CallGetTrend
    \/ CallEvaluateAlerts

FnSpec == FnInit /\ [][FnNext]_vars

----------------------------------------------------------------------------
(* Vocabulary of the properties *)

Latest == temperatureData[Len(temperatureData)]

Messages(list) == [i \in 1..Len(list) |-> list[i].message]

(* The messages the two rules call for on one sample, battery rule first. *)
ExpectedMessages(sample) ==
    (IF sample.batteryTemp > BatteryThreshold * Scale
     THEN <<BatteryMessage>> ELSE << >>)
    \o (IF \/ sample.batteryTemp - sample.localTemp > DifferentialThreshold * Scale
           \/ sample.localTemp - sample.batteryTemp > DifferentialThreshold * Scale
        THEN <<DifferentialMessage>> ELSE << >>)

Shows(list, message) == \E i \in 1..Len(list) : list[i].message = message

(* tenths is a count of tenths nearest to num / den degrees (den > 0). *)
NearestTenth(tenths, num, den) ==
    LET gap == 2 * (10 * num - tenths * den)
    IN  gap <= den /\ -gap <= den

(* The reading has at most one decimal digit. *)
OneDecimal(reading) == (10 * reading) % Scale = 0

Permuted(data, p) == [i \in 1..Len(data) |-> data[p[i]]]

----------------------------------------------------------------------------
(* C1: for every non-empty series the alert evaluation returns, from the
   last sample alone, the battery alert iff batteryTemp > 30 and the
   differential alert iff |batteryTemp - localTemp| > 10, independently of
   each other, nothing at exactly 30 or exactly 10, battery alert first. *)
C1_AlertRules ==
    (ret.fn = "evaluateAlerts" /\ Len(temperatureData) >= 1) =>
        /\ ret.outcome.tag = "return"
        /\ Messages(ret.outcome.value) = ExpectedMessages(Latest)

(* Both readings of the last sample sit exactly on their thresholds and
   nothing fires, although the sample before it fires both rules. *)
C1_Witness ==
    /\ ret.fn = "evaluateAlerts"
    /\ Len(temperatureData) = 2
    /\ Latest = Sample(Deg(20), Deg(30))
    /\ temperatureData[1] = Sample(Deg(20), Deg(30) + 1)
    /\ ret.outcome = Return(<< >>)

(* C2: once the effect for the current series has run, the stored alert
   list is exactly what the current latest sample fires: nothing carried
   over, accumulated or duplicated from an earlier evaluation. *)
C2_AlertsReplaced ==
    (~view.crashed /\ ~effectPending) =>
        /\ Messages(alerts) = ExpectedMessages(Latest)
        /\ view.banner = alerts

(* A third sample firing nothing was appended to a series whose latest
   sample fired both rules, and the list is empty again. *)
C2_Witness ==
    /\ ~view.crashed
    /\ ~effectPending
    /\ Len(temperatureData) = 3
    /\ Len(ExpectedMessages(temperatureData[2])) = 2
    /\ alerts = << >>

(* C3: for an empty series the statistics and the alert evaluation both
   fail with an EmptySeries error. *)
C3_EmptySeriesError ==
    (temperatureData = << >> /\ ret.fn \in {"calculateStats", "evaluateAlerts"}) =>
        ret.outcome = Throw("EmptySeries")

(* C4: for a series of fewer than two samples the trend fails with an
   InsufficientData error. *)
C4_InsufficientData ==
    (Len(temperatureData) < 2 /\ ret.fn = "getTrend") =>
        ret.outcome = Throw("InsufficientData")

(* C5: for a series of at least two samples the trend is 'up' exactly when
   last > previous and 'down' otherwise, its magnitude is |last - previous|
   rounded to one decimal and never negative, and the samples before the
   last two have no influence. *)
C5_Trend ==
    (ret.fn = "getTrend" /\ Len(temperatureData) >= 2) =>
        LET last == Latest[ret.key]
            prev == temperatureData[Len(temperatureData) - 1][ret.key]
            diff == IF last >= prev THEN last - prev ELSE prev - last
        IN  /\ ret.outcome.tag = "return"
            /\ ret.outcome.value.direction = "up" <=> last > prev
            /\ ret.outcome.value.direction = "down" <=> last <= prev
            /\ ret.outcome.value.change >= 0
            /\ NearestTenth(ret.outcome.value.change, diff, Scale)
            /\ ret.outcome =
                   GetTrend(<<temperatureData[Len(temperatureData) - 1], Latest>>,
                            ret.key)

(* The last two values are equal and read as 'down' with magnitude 0.0,
   after an earlier, higher value. *)
C5_Witness ==
    /\ ret.fn = "getTrend"
    /\ Len(temperatureData) = 3
    /\ Latest[ret.key] = temperatureData[2][ret.key]
    /\ temperatureData[1][ret.key] > Latest[ret.key]
    /\ ret.outcome = Return([direction |-> "down", change |-> 0])

(* C6: the ambient estimate is (2 * l + b) / 3 rounded to one decimal,
   (22, 25) giving 23.0, and so lies between min(l, b) and max(l, b) up to
   the rounding. *)
C6_Ambient ==
    ret.fn = "calculateAmbientTemp" =>
        LET l == ret.localTemp
            b == ret.batteryTemp
            lo == IF l <= b THEN l ELSE b
            hi == IF l <= b THEN b ELSE l
            t == ret.outcome.value
        IN  /\ ret.outcome.tag = "return"
            /\ NearestTenth(t, 2 * l + b, 3 * Scale)
            /\ (l = 22 * Scale /\ b = 25 * Scale) => t = 230
            /\ 20 * lo - Scale <= 2 * Scale * t
            /\ 2 * Scale * t <= 20 * hi + Scale

C6_Witness ==
    /\ ret.fn = "calculateAmbientTemp"
    /\ ret.localTemp = 22 * Scale
    /\ ret.batteryTemp = 25 * Scale
    /\ ret.outcome = Return(230)

(* C7 as stated: for every non-empty series and either field
   min <= avg <= max, and min = max = avg for a single sample, whatever the
   precision of the readings. *)
C7_MinAvgMax ==
    (ret.fn = "calculateStats" /\ Len(temperatureData) >= 1) =>
        LET st == ret.outcome.value
        IN  /\ 10 * st.min <= Scale * st.avg
            /\ Scale * st.avg <= 10 * st.max
            /\ Len(temperatureData) = 1 =>
                   (st.min = st.max /\ 10 * st.min = Scale * st.avg)

(* C7 as amended: min and max are the extreme readings at full precision
   and avg is the mean rounded to one decimal; min <= avg <= max, and
   min = max = avg for a single sample, when every reading of the field has
   at most one decimal digit. *)
C7_MinAvgMaxOneDecimal ==
    (ret.fn = "calculateStats" /\ Len(temperatureData) >= 1) =>
        LET st == ret.outcome.value
            n == Len(temperatureData)
            values == {temperatureData[i][ret.key] : i \in 1..n}
        IN  /\ ret.outcome.tag = "return"
            /\ st.min \in values /\ \A v \in values : st.min <= v
            /\ st.max \in values /\ \A v \in values : v <= st.max
            /\ NearestTenth(st.avg, Sum(Project(temperatureData, ret.key)),
                            n * Scale)
            /\ (\A v \in values : OneDecimal(v)) =>
                   /\ 10 * st.min <= Scale * st.avg
                   /\ Scale * st.avg <= 10 * st.max
                   /\ n = 1 => (st.min = st.max /\ 10 * st.min = Scale * st.avg)

(* Three one-decimal readings whose mean, 20.666..., is rounded to 20.7. *)
C7_Witness ==
    /\ ret.fn = "calculateStats"
    /\ ret.key = "localTemp"
    /\ Len(temperatureData) = 3
    /\ \A i \in 1..3 : OneDecimal(temperatureData[i].localTemp)
    /\ ret.outcome.value.min = 20 * Scale
    /\ ret.outcome.value.max = 22 * Scale
    /\ ret.outcome.value.avg = 207

C10_BannerAgreesWithStatus ==
    ~view.crashed =>
        /\ view.batteryStatus = "Warning" <=> Shows(view.banner, BatteryMessage)
        /\ view.differentialHighlighted <=> Shows(view.banner, DifferentialMessage)

=============================================================================
